---- MODULE Spec2Model ----
(***************************************************************************)
(* Model of the git_analysis scripts.                                      *)
(*                                                                         *)
(*   main.py                 generate_git_summary_json: the ignore-aware   *)
(*                           tree (build_project_structure), the flat      *)
(*                           directory index (build_directories_list) and  *)
(*                           the per-file history (extract_git_history).   *)
(*   create_filelist_csv.py  load_gitignore_specs, is_ignored and          *)
(*                           get_all_project_files.                        *)
(*                                                                         *)
(* A path is a sequence of names relative to the project root (<<>> is the *)
(* root).  An ignore line is kept in tokenised form: its leading "!", its  *)
(* leading "/", its "/"-separated segments and its trailing "/".           *)
(***************************************************************************)
EXTENDS Integers, Sequences, FiniteSets, TLC

VARIABLES
    prog,            \* which script runs: "main", "csv" or "hist"
    pc,              \* position of the running script
    dirs,            \* filesystem: the directories (the root <<>> included)
    files,           \* filesystem: the regular files
    content,         \* filesystem: ignore file path -> its lines
    extras,          \* csv: extra_gitignores, a list of root-relative paths
    spec,            \* main: the PathSpec of load_gitignore, or None
    tree,            \* main: result of build_project_structure
    directories,     \* main: result of build_directories_list
    walked,          \* main: the dirpaths os.walk yielded, in order
    output,          \* main: the document written by the current run
    prevOutput,      \* main: the document written by the run before
    runs,            \* main: completed runs
    specs,           \* csv: result of load_gitignore_specs
    result,          \* csv: result of get_all_project_files
    stream,          \* hist: the commits traverse_commits() has yielded
    mi,              \* hist: index of the next change entry of the last commit
    file_histories,  \* hist: key -> list of events (insertion-ordered dict)
    files_data       \* hist: the file records of generate_git_summary_json

vars == <<prog, pc, dirs, files, content, extras, spec, tree, directories,
          walked, output, prevOutput, runs, specs, result, stream, mi,
          file_histories, files_data>>

fsVars   == <<dirs, files, content>>
mainVars == <<spec, tree, directories, walked, output, prevOutput, runs>>
csvVars  == <<extras, specs, result>>
histVars == <<stream, mi, file_histories, files_data>>

\* An optional value is a list of at most one element: None is Python's None,
\* Some(x) a value that is present.
None == <<>>

Some(x) == <<x>>

Val(o) == o[1]

(***************************************************************************)
(* Bounds of the model.                                                    *)
(***************************************************************************)
MaxRules   == 2     \* lines of the root .gitignore
MaxExtras  == 2     \* length of extra_gitignores
MaxRuns    == 2     \* runs of generate_git_summary_json over one tree
MaxCommits == 3     \* commits in the stream

(***************************************************************************)
(* Paths.                                                                  *)
(***************************************************************************)
Root == <<>>

Name(p) == p[Len(p)]

Parent(p) == SubSeq(p, 1, Len(p) - 1)

\* base_dir in path.parents or path == base_dir
IsPrefix(b, p) == Len(b) <= Len(p) /\ SubSeq(p, 1, Len(b)) = b

\* path.relative_to(base)
relative_to(p, b) == SubSeq(p, Len(b) + 1, Len(p))

\* PurePath.as_posix(): the empty relative path is rendered "."
as_posix(rel) == IF rel = <<>> THEN <<".">> ELSE rel

\* Code-point order of the names the filesystems below use.
NameOrder == <<".git", ".gitignore", "a", "b", "exclude", "f", "info">>

Reverse(s) == [i \in 1..Len(s) |-> s[Len(s) + 1 - i]]

Rank(ord, n) == CHOOSE i \in 1..Len(ord) : ord[i] = n

\* The elements of the set S of sibling paths as a list, in the order ord
\* gives their names.
RECURSIVE OrderBy(_, _)
OrderBy(ord, S) ==
    IF S = {} THEN <<>>
    ELSE LET m == CHOOSE x \in S :
                    \A y \in S : Rank(ord, Name(x)) <= Rank(ord, Name(y))
         IN  <<m>> \o OrderBy(ord, S \ {m})

\* Path.iterdir(): the immediate children of a directory
iterdir(d) == {p \in dirs \cup files : Len(p) = Len(d) + 1 /\ Parent(p) = d}

\* sorted(...) of a list of sibling Path objects
sorted(S) == OrderBy(NameOrder, S)

\* The orders in which the filesystem provider may list a directory
\* (os.scandir gives no order): two representatives.
ScanOrders == {NameOrder, Reverse(NameOrder)}

(***************************************************************************)
(* gitwildmatch lines and PathSpec.match_file.                             *)
(***************************************************************************)
Pat(neg, lead, segs, trail) ==
    [neg |-> neg, lead |-> lead, segs |-> segs, trail |-> trail]

\* A blank line or a "#" line: it has no pattern.
CommentLine == Pat(FALSE, FALSE, <<>>, FALSE)

L_a      == Pat(FALSE, FALSE, <<"a">>, FALSE)        \* a
L_aSlash == Pat(FALSE, FALSE, <<"a">>, TRUE)         \* a/
L_notAB  == Pat(TRUE,  FALSE, <<"a", "b">>, FALSE)   \* !a/b
L_f      == Pat(FALSE, FALSE, <<"f">>, FALSE)        \* f
L_notF   == Pat(TRUE,  FALSE, <<"f">>, FALSE)        \* !f
L_rootF  == Pat(FALSE, TRUE,  <<"f">>, FALSE)        \* /f
L_star   == Pat(FALSE, FALSE, <<"*">>, FALSE)        \* *

\* One segment glob against one path segment.
SegMatch(g, s) == g = "*" \/ g = s

\* The regular expression a line compiles to, against a "/"-joined path.
\* A line of one segment and no leading "/" matches at any depth; any other
\* line is anchored to the base.  A line without trailing "/" matches the
\* named entry and everything beneath it; with a trailing "/" it matches
\* only paths strictly beneath the named entry ("a/" does not match "a").
PatMatches(p, path) ==
    LET n == Len(p.segs)
        offsets == IF ~p.lead /\ n = 1 THEN 0..(Len(path) - 1) ELSE {0}
    IN  \E k \in offsets :
            /\ k + n <= Len(path)
            /\ \A i \in 1..n : SegMatch(p.segs[i], path[k + i])
            /\ p.trail => Len(path) > k + n

\* PathSpec.from_lines("gitwildmatch", lines): blank and comment lines
\* compile to no pattern.
from_lines(lines) == SelectSeq(lines, LAMBDA l : l.segs # <<>>)

\* PathSpec.match_file: the last pattern that matches decides.
RECURSIVE match_file(_, _)
match_file(patterns, path) ==
    IF patterns = <<>> THEN FALSE
    ELSE LET last == patterns[Len(patterns)]
         IN  IF PatMatches(last, path) THEN ~last.neg
             ELSE match_file(SubSeq(patterns, 1, Len(patterns) - 1), path)

(***************************************************************************)
(* main.py: the tree indexer.                                              *)
(***************************************************************************)
\* load_gitignore(root_path)
load_gitignore ==
    IF <<".gitignore">> \in files
    THEN Some(from_lines(content[<<".gitignore">>]))
    ELSE None

\* is_ignored(path, spec, root_path) of main.py
main_is_ignored(path, sp) ==
    IF \E i \in 1..Len(path) : path[i] = ".git" THEN TRUE
    ELSE IF sp = None THEN FALSE
    ELSE match_file(Val(sp), as_posix(path))

RECURSIVE build_project_structure(_, _)
build_project_structure(current_path, sp) ==
    LET entries == sorted(iterdir(current_path))
        RECURSIVE loop(_)
        loop(i) ==
            IF i > Len(entries) THEN <<>>
            ELSE LET entry == entries[i]
                 IN  IF main_is_ignored(entry, sp) THEN loop(i + 1)
                     ELSE IF entry \in dirs
                     THEN <<[type |-> "directory", name |-> Name(entry),
                             path |-> as_posix(entry),
                             children |-> build_project_structure(entry, sp)]>>
                          \o loop(i + 1)
                     ELSE <<[type |-> "file", name |-> Name(entry),
                             path |-> as_posix(entry)]>>
                          \o loop(i + 1)
    IN  loop(1)

\* os.walk(top), top-down: one triple per directory, every directory of the
\* tree being visited (the caller never prunes dirnames).
RECURSIVE os_walk(_, _)
os_walk(ord, top) ==
    LET dirnames  == OrderBy(ord, iterdir(top) \cap dirs)
        filenames == OrderBy(ord, iterdir(top) \cap files)
        RECURSIVE below(_)
        below(i) == IF i > Len(dirnames) THEN <<>>
                    ELSE os_walk(ord, dirnames[i]) \o below(i + 1)
    IN  <<[dirpath |-> top, dirnames |-> dirnames, filenames |-> filenames]>>
        \o below(1)

\* The body of build_directories_list's loop for one (dirpath, dirnames,
\* filenames): the entry appended, as a list of zero or one entries.
directory_entry(w, sp) ==
    IF main_is_ignored(w.dirpath, sp) THEN <<>>
    ELSE LET rel_str == IF as_posix(w.dirpath) = <<".">> THEN <<>>
                        ELSE as_posix(w.dirpath)
             keep(seq) == SelectSeq(seq, LAMBDA p : ~main_is_ignored(p, sp))
             mark(seq, slash) ==
                 [i \in 1..Len(seq) |->
                     [path |-> rel_str \o <<Name(seq[i])>>, slash |-> slash]]
         IN  <<[relative_path |->
                   [path |-> IF rel_str # <<>> THEN rel_str ELSE <<".">>,
                    slash |-> TRUE],
                children |-> mark(keep(w.dirnames), TRUE)
                             \o mark(keep(w.filenames), FALSE)]>>

build_directories_list(ord, sp) ==
    LET w == os_walk(ord, Root)
        RECURSIVE loop(_)
        loop(i) == IF i > Len(w) THEN <<>>
                   ELSE directory_entry(w[i], sp) \o loop(i + 1)
    IN  loop(1)

(***************************************************************************)
(* create_filelist_csv.py: scopes and the flat file list.                  *)
(***************************************************************************)
\* Path.exists()
exists(p) == p \in dirs \cup files

\* raw_patterns.setdefault(base_dir, []).extend(lines); raw_patterns is an
\* insertion-ordered dict, kept as a list of [base, lines] with unique bases.
extend(raw, base, lines) ==
    IF \E i \in 1..Len(raw) : raw[i].base = base
    THEN LET i == CHOOSE j \in 1..Len(raw) : raw[j].base = base
         IN  [raw EXCEPT ![i].lines = @ \o lines]
    ELSE Append(raw, [base |-> base, lines |-> lines])

\* Mutant of load_gitignore_specs: every extra ignore file is scoped to the
\* root instead of to its own parent directory.
load_gitignore_specs_rootscoped(extra_gitignores) ==
    LET RECURSIVE loop(_, _)
        loop(i, raw) ==
            IF i > Len(extra_gitignores) THEN raw
            ELSE IF ~exists(extra_gitignores[i]) THEN loop(i + 1, raw)
                 ELSE loop(i + 1, extend(raw, Root, content[extra_gitignores[i]]))
        raw1 == IF exists(<<".gitignore">>)
                THEN extend(<<>>, Root, content[<<".gitignore">>])
                ELSE <<>>
        raw2 == loop(1, raw1)
        raw3 == IF exists(<<".git", "info", "exclude">>)
                THEN extend(raw2, Root, content[<<".git", "info", "exclude">>])
                ELSE raw2
    IN  [i \in 1..Len(raw3) |->
            [base |-> raw3[i].base, spec |-> from_lines(raw3[i].lines)]]

load_gitignore_specs(extra_gitignores) ==
    LET main_gitignore == <<".gitignore">>
        raw1 == IF exists(main_gitignore)
                THEN extend(<<>>, Root, content[main_gitignore])
                ELSE <<>>
        RECURSIVE loop(_, _)
        loop(i, raw) ==
            IF i > Len(extra_gitignores) THEN raw
            ELSE LET gitignore_path == extra_gitignores[i]
                 IN  IF ~exists(gitignore_path) THEN loop(i + 1, raw)
                     ELSE loop(i + 1, extend(raw, Parent(gitignore_path),
                                             content[gitignore_path]))
        raw2 == loop(1, raw1)
        git_exclude == <<".git", "info", "exclude">>
        raw3 == IF exists(git_exclude)
                THEN extend(raw2, Root, content[git_exclude])
                ELSE raw2
    IN  [i \in 1..Len(raw3) |->
            [base |-> raw3[i].base, spec |-> from_lines(raw3[i].lines)]]

\* Mutant of is_ignored: the last applicable scope alone decides, so a deeper
\* scope overrides a shallower one.
is_ignored_lastscope(path, sps) ==
    LET app == SelectSeq(sps, LAMBDA sc : IsPrefix(sc.base, path))
    IN  /\ app # <<>>
        /\ match_file(app[Len(app)].spec,
                      as_posix(relative_to(path, app[Len(app)].base)))

\* is_ignored(path, root_dir, specs) of create_filelist_csv.py
RECURSIVE is_ignored(_, _)
is_ignored(path, sps) ==
    IF sps = <<>> THEN FALSE
    ELSE LET base_dir == Head(sps).base
         IN  IF /\ IsPrefix(base_dir, path)
                /\ match_file(Head(sps).spec,
                              as_posix(relative_to(path, base_dir)))
             THEN TRUE
             ELSE is_ignored(path, Tail(sps))

\* root_dir.rglob("*"): every directory of the tree in turn, the root first,
\* and for each its children as the provider lists them.
rglob(ord) ==
    LET w == os_walk(ord, Root)
        RECURSIVE loop(_)
        loop(i) == IF i > Len(w) THEN <<>>
                   ELSE OrderBy(ord, iterdir(w[i].dirpath)) \o loop(i + 1)
    IN  loop(1)

\* The loop of get_all_project_files over rglob's paths.
get_all_project_files(ord, sps) ==
    SelectSeq(rglob(ord),
              LAMBDA path :
                  /\ path \in files
                  /\ ~(\E i \in 1..Len(path) : path[i] = ".git")
                  /\ ~is_ignored(path, sps))

(***************************************************************************)
(* Filesystems and inputs.                                                 *)
(***************************************************************************)
SeqsUpTo(S, n) == UNION {[1..k -> S] : k \in 0..n}

MainLines == {L_a, L_aSlash, L_notAB, L_f, L_rootF, L_star}

CsvLines == {L_a, L_notAB, CommentLine}

SubLists == {<<L_f>>, <<L_notF>>}

ExcludeLists == {<<L_notAB>>, <<L_f>>}

ExtraCandidates == {<<"a", ".gitignore">>, <<".git", "info", "exclude">>,
                    <<".gitignore">>}

When(c, S) == IF c THEN S ELSE {}

idleMain == /\ spec = None /\ tree = <<>> /\ directories = <<>>
            /\ walked = <<>> /\ output = None /\ prevOutput = None /\ runs = 0

idleCsv == extras = <<>> /\ specs = <<>> /\ result = <<>>

idleHist == stream = <<>> /\ mi = 1 /\ file_histories = <<>> /\ files_data = <<>>

\* A project for main.py: directory a, optionally f, a/f, a/b, a/b/f, a
\* .git directory and a root .gitignore of at most MaxRules lines.
InitMain ==
    /\ prog = "main" /\ pc = "start"
    /\ \E hasF \in BOOLEAN, hasAF \in BOOLEAN, ab \in {"none", "empty", "file"},
          git \in BOOLEAN,
          gi \in {None} \cup {Some(l) : l \in SeqsUpTo(MainLines, MaxRules)} :
          /\ dirs = {Root, <<"a">>}
                    \cup When(ab # "none", {<<"a", "b">>})
                    \cup When(git, {<<".git">>, <<".git", "info">>})
          /\ files = When(hasF, {<<"f">>})
                     \cup When(hasAF, {<<"a", "f">>})
                     \cup When(ab = "file", {<<"a", "b", "f">>})
                     \cup When(git, {<<".git", "info", "exclude">>})
                     \cup When(gi # None, {<<".gitignore">>})
          /\ content = [p \in When(gi # None, {<<".gitignore">>})
                              \cup When(git, {<<".git", "info", "exclude">>})
                        |-> IF p = <<".gitignore">> THEN Val(gi) ELSE <<>>]
    /\ idleMain /\ idleCsv /\ idleHist

\* A project for create_filelist_csv.py: files f, a/f and a/b/f, and any of
\* the three ignore sources .gitignore, a/.gitignore, .git/info/exclude.
InitCsv ==
    /\ prog = "csv" /\ pc = "start"
    /\ \E gi \in {None} \cup {Some(l) : l \in SeqsUpTo(CsvLines, MaxRules)},
          sub \in {None} \cup {Some(l) : l \in SubLists},
          git \in BOOLEAN, ex \in {None} \cup {Some(l) : l \in ExcludeLists} :
          /\ ex # None => git
          /\ dirs = {Root, <<"a">>, <<"a", "b">>}
                    \cup When(git, {<<".git">>, <<".git", "info">>})
          /\ files = {<<"f">>, <<"a", "f">>, <<"a", "b", "f">>}
                     \cup When(gi # None, {<<".gitignore">>})
                     \cup When(sub # None, {<<"a", ".gitignore">>})
                     \cup When(ex # None, {<<".git", "info", "exclude">>})
          /\ content = [p \in When(gi # None, {<<".gitignore">>})
                              \cup When(sub # None, {<<"a", ".gitignore">>})
                              \cup When(ex # None, {<<".git", "info", "exclude">>})
                        |-> IF p = <<".gitignore">> THEN Val(gi)
                            ELSE IF p = <<"a", ".gitignore">> THEN Val(sub)
                            ELSE Val(ex)]
    /\ extras \in SeqsUpTo(ExtraCandidates, MaxExtras)
    /\ specs = <<>> /\ result = <<>>
    /\ idleMain /\ idleHist

(***************************************************************************)
(* generate_git_summary_json, the filesystem part.                         *)
(***************************************************************************)
LoadGitignore ==
    /\ prog = "main" /\ pc = "start"
    /\ spec' = load_gitignore
    /\ pc' = "loaded"
    /\ UNCHANGED <<prog, fsVars, tree, directories, walked, output, prevOutput,
                   runs, csvVars, histVars>>

BuildProjectStructure ==
    /\ prog = "main" /\ pc = "loaded"
    /\ tree' = build_project_structure(Root, spec)
    /\ pc' = "tree"
    /\ UNCHANGED <<prog, fsVars, spec, directories, walked, output, prevOutput,
                   runs, csvVars, histVars>>

BuildDirectoriesList ==
    /\ prog = "main" /\ pc = "tree"
    /\ \E ord \in ScanOrders :
          /\ directories' = build_directories_list(ord, spec)
          /\ walked' = [i \in 1..Len(os_walk(ord, Root)) |->
                           os_walk(ord, Root)[i].dirpath]
    /\ pc' = "dirs"
    /\ UNCHANGED <<prog, fsVars, spec, tree, output, prevOutput, runs,
                   csvVars, histVars>>

\* json.dump(output, f): the tree and the directory index of the document
\* (its "files" part is the history's, modelled below).
WriteOutput ==
    /\ prog = "main" /\ pc = "dirs"
    /\ output' = Some([project_tree |-> [root |-> [root_path |-> <<".">>,
                                              structure |-> tree]],
                  directories |-> directories])
    /\ prevOutput' = output
    /\ runs' = runs + 1
    /\ pc' = "written"
    /\ UNCHANGED <<prog, fsVars, spec, tree, directories, walked, csvVars,
                   histVars>>

\* The script is started again over the unchanged project.
Rerun ==
    /\ prog = "main" /\ pc = "written" /\ runs < MaxRuns
    /\ pc' = "start"
    /\ spec' = None /\ tree' = <<>> /\ directories' = <<>> /\ walked' = <<>>
    /\ UNCHANGED <<prog, fsVars, output, prevOutput, runs, csvVars, histVars>>

(***************************************************************************)
(* create_filelist_csv.py: main().                                         *)
(***************************************************************************)
LoadGitignoreSpecs ==
    /\ prog = "csv" /\ pc = "start"
    /\ specs' = load_gitignore_specs(extras)
    /\ pc' = "specs"
    /\ UNCHANGED <<prog, fsVars, mainVars, extras, result, histVars>>

GetAllProjectFiles ==
    /\ prog = "csv" /\ pc = "specs"
    /\ \E ord \in ScanOrders : result' = get_all_project_files(ord, specs)
    /\ pc' = "files"
    /\ UNCHANGED <<prog, fsVars, mainVars, extras, specs, histVars>>

NextMain == \/ LoadGitignore
            \/ BuildProjectStructure
            \/ BuildDirectoriesList
            \/ WriteOutput
            \/ Rerun

NextCsv == LoadGitignoreSpecs \/ GetAllProjectFiles

\* Either script over one project.
Spec == (InitMain \/ InitCsv) /\ [][NextMain \/ NextCsv]_vars

SpecCsv == InitCsv /\ [][NextCsv]_vars

(***************************************************************************)
(* main.py: the history aggregator.                                        *)
(*                                                                         *)
(* A timestamp is [utc, off]: an instant in hours and the UTC offset, in   *)
(* hours, of the timezone it carries.  A commit hash is <<prefix, rest>>,  *)
(* prefix standing for its first 14 characters.  The events keep the       *)
(* fields the aggregation reads or orders by; commit_message is left out.  *)
(***************************************************************************)
\* JST = timezone(timedelta(hours=9))
JST == 9

\* datetime.astimezone(tz): the same instant, carried in timezone tz
astimezone(d, tz) == [utc |-> d.utc, off |-> tz]

\* datetime.isoformat(): "<date>T<hour>+<offset>" of the local time, kept as
\* <<day, hour, offset>>
isoformat(d) == <<(d.utc + d.off) \div 24, (d.utc + d.off) % 24, d.off>>

\* Mutant of author_date_str: the timestamp is rendered in the timezone it
\* came with, not in JST.
author_date_str_local(d) == isoformat(d)

\* commit.author_date.astimezone(JST).isoformat()
author_date_str(d) == isoformat(astimezone(d, JST))

\* str <= str for two isoformat strings: character by character, which is
\* field by field for fields of fixed width
StrLeq(x, y) ==
    \/ x[1] < y[1]
    \/ x[1] = y[1] /\ x[2] < y[2]
    \/ x[1] = y[1] /\ x[2] = y[2] /\ x[3] <= y[3]

\* commit.hash[:14]
short_hash(h) == h[1]

\* Mutant of rel_path_of: the prior path is preferred to the new path.
rel_path_of_old_first(mod) ==
    IF mod.old_path # None THEN mod.old_path ELSE mod.new_path

\* rel_path = new_path or old_path
rel_path_of(mod) ==
    IF mod.new_path # None THEN mod.new_path ELSE mod.old_path

\* The entry dict built for one change entry of one commit.
entry_of(commit, mod) ==
    [commit_hash   |-> short_hash(commit.hash),
     author_date   |-> author_date_str(commit.author_date),
     commit_date   |-> isoformat(astimezone(commit.committer_date, JST)),
     change_type   |-> mod.change_type,
     file_created  |-> mod.change_type = "ADD",
     file_deleted  |-> mod.change_type = "DELETE",
     file_rename   |-> mod.change_type = "RENAME",
     old_file_name |-> mod.old_path,
     new_file_name |-> mod.new_path]

\* file_histories.setdefault(rel_path, []).append(entry)
setdefault_append(fh, key, entry) ==
    IF \E i \in 1..Len(fh) : fh[i].key = key
    THEN LET i == CHOOSE j \in 1..Len(fh) : fh[j].key = key
         IN  [fh EXCEPT ![i].events = Append(@, entry)]
    ELSE Append(fh, [key |-> key, events |-> <<entry>>])

\* Mutant of process_mod: an entry without a new path is skipped, so a
\* deletion leaves no event.
process_mod_new_only(fh, commit, mod) ==
    IF mod.new_path = None THEN fh
    ELSE setdefault_append(fh, Val(mod.new_path), entry_of(commit, mod))

\* The body of the loop over a commit's change entries.
process_mod(fh, commit, mod) ==
    LET rel_path == rel_path_of(mod)
    IN  IF rel_path = None THEN fh
        ELSE setdefault_append(fh, Val(rel_path), entry_of(commit, mod))

\* list.sort(key=lambda x: x["author_date"]): a stable sort, ascending by
\* the author_date string
RECURSIVE list_sort(_)
list_sort(l) ==
    IF l = <<>> THEN <<>>
    ELSE LET e == l[Len(l)]
             t == list_sort(SubSeq(l, 1, Len(l) - 1))
             \* e goes behind every element whose key is <= its own
             k == Cardinality({i \in 1..Len(t) :
                                 StrLeq(t[i].author_date, e.author_date)})
         IN  SubSeq(t, 1, k) \o <<e>> \o SubSeq(t, k + 1, Len(t))

\* Mutant of sort_histories: the histories are left in arrival order.
sort_histories_skipped(fh) == fh

\* for rel_path in file_histories: file_histories[rel_path].sort(...)
sort_histories(fh) ==
    [i \in 1..Len(fh) |-> [key |-> fh[i].key, events |-> list_sort(fh[i].events)]]

\* Path(filename).suffix of the file names below
suffix(filename) == IF filename = "a.ts" THEN ".ts" ELSE ""

LANGUAGE_MAP ==
    [x \in {".js", ".jsx", ".ts", ".tsx", ".html", ".css", ".md", ".json"} |->
        CASE x = ".js"   -> "JavaScript"
          [] x = ".jsx"  -> "JavaScript (React)"
          [] x = ".ts"   -> "TypeScript"
          [] x = ".tsx"  -> "TypeScript (React)"
          [] x = ".html" -> "HTML"
          [] x = ".css"  -> "CSS"
          [] x = ".md"   -> "Markdown"
          [] x = ".json" -> "JSON"]

\* LANGUAGE_MAP.get(Path(filename).suffix, None)
get_language_from_extension(filename) ==
    IF suffix(filename) \in DOMAIN LANGUAGE_MAP
    THEN Some(LANGUAGE_MAP[suffix(filename)])
    ELSE None

\* The file record generate_git_summary_json builds for one key.
file_info(rel_path, history) ==
    [relative_path |-> rel_path,
     created_at    |-> IF history # <<>> THEN Some(history[1].author_date) ELSE None,
     git_history   |-> history,
     metadata      |-> get_language_from_extension(rel_path)]

\* Change entries: an addition, a deletion and a rename of a.ts, a
\* modification of either file, and an entry that carries no path.
Mod(type, old, new) == [change_type |-> type, old_path |-> old, new_path |-> new]

M_add    == Mod("ADD", None, Some("a.ts"))
M_modA   == Mod("MODIFY", Some("a.ts"), Some("a.ts"))
M_modB   == Mod("MODIFY", Some("b"), Some("b"))
M_delete == Mod("DELETE", Some("a.ts"), None)
M_rename == Mod("RENAME", Some("a.ts"), Some("b"))
M_nopath == Mod("UNKNOWN", None, None)

ModLists == {<<>>, <<M_add>>, <<M_delete>>, <<M_rename>>, <<M_modB>>,
             <<M_nopath, M_modA>>}

\* Author timestamps: 23:00 JST written with offset +09:00, and one hour
\* later, 00:00 JST of the next day, written in UTC and written in JST.
AuthorDates == {[utc |-> 14, off |-> 9], [utc |-> 15, off |-> 0],
                [utc |-> 15, off |-> 9]}

InitHist ==
    /\ prog = "hist" /\ pc = "traverse"
    /\ dirs = {Root} /\ files = {} /\ content = <<>>
    /\ idleMain /\ idleCsv /\ idleHist

\* traverse_commits() yields the next commit of the branch.
TraverseCommit ==
    /\ prog = "hist" /\ pc = "traverse"
    /\ Len(stream) < MaxCommits
    /\ \E d \in AuthorDates, mods \in ModLists :
          /\ stream' = Append(stream,
                              [hash |-> <<Len(stream) + 1, "rest">>,
                               author_date |-> d, committer_date |-> d,
                               modified_files |-> mods])
          /\ pc' = IF mods = <<>> THEN "traverse" ELSE "mods"
    /\ mi' = 1
    /\ UNCHANGED <<prog, fsVars, mainVars, csvVars, file_histories, files_data>>

\* One pass of the loop over the commit's change entries.
ProcessMod ==
    /\ prog = "hist" /\ pc = "mods"
    /\ LET commit == stream[Len(stream)]
       IN  /\ file_histories' = process_mod(file_histories, commit,
                                            commit.modified_files[mi])
           /\ pc' = IF mi = Len(commit.modified_files) THEN "traverse" ELSE "mods"
    /\ mi' = mi + 1
    /\ UNCHANGED <<prog, fsVars, mainVars, csvVars, stream, files_data>>

\* The stream is exhausted: the histories are sorted and returned.
SortHistories ==
    /\ prog = "hist" /\ pc = "traverse"
    /\ file_histories' = sort_histories(file_histories)
    /\ pc' = "sorted"
    /\ UNCHANGED <<prog, fsVars, mainVars, csvVars, stream, mi, files_data>>

\* generate_git_summary_json builds files_data from the histories.
AssembleFiles ==
    /\ prog = "hist" /\ pc = "sorted"
    /\ files_data' = [i \in 1..Len(file_histories) |->
                         file_info(file_histories[i].key, file_histories[i].events)]
    /\ pc' = "assembled"
    /\ UNCHANGED <<prog, fsVars, mainVars, csvVars, stream, mi, file_histories>>

NextHist == TraverseCommit \/ ProcessMod \/ SortHistories \/ AssembleFiles

SpecHist == InitHist /\ [][NextHist]_vars

(***************************************************************************)
(* Reading the outputs.                                                    *)
(***************************************************************************)
Range(seq) == {seq[i] : i \in 1..Len(seq)}

\* Every node of a nested tree, at any depth.
RECURSIVE NodesOf(_)
NodesOf(t) ==
    UNION {{t[i]} \cup (IF t[i].type = "directory"
                        THEN NodesOf(t[i].children) ELSE {})
           : i \in 1..Len(t)}

TreePaths(t) == {n.path : n \in NodesOf(t)}

\* The directories of the tree, the root included.
TreeDirs(t) == {Root} \cup {n.path : n \in {m \in NodesOf(t) : m.type = "directory"}}

\* The immediate children of directory D in the tree, written as the
\* directory index writes them.
TreeChildren(t, D) ==
    LET kids == IF D = Root THEN Range(t)
                ELSE UNION {Range(n.children) :
                            n \in {m \in NodesOf(t) :
                                     m.type = "directory" /\ m.path = D}}
    IN  {[path |-> k.path, slash |-> k.type = "directory"] : k \in kids}

\* The relative_path a DirectoryEntry gives directory D.
EntryPath(D) == [path |-> as_posix(D), slash |-> TRUE]

EntriesFor(D) ==
    {i \in 1..Len(directories) : directories[i].relative_path = EntryPath(D)}

ListedChildren == UNION {Range(directories[i].children) : i \in 1..Len(directories)}

IndexerDone == prog = "main" /\ pc \in {"dirs", "written"}

CsvDone == prog = "csv" /\ pc = "files"

Below(D) == {P \in dirs \cup files : IsPrefix(D, P) /\ P # D}

(***************************************************************************)
(* Claims about the tree indexer.                                          *)
(***************************************************************************)
\* C1: a path whose ignore verdict is "ignored" is no node of the tree, is
\* listed as a child in no directory entry and, when it is a directory, is
\* not descended into by the walk and gets no directory entry.
C1_IgnoredNeverAppears ==
    IndexerDone =>
        \A P \in (dirs \cup files) \ {Root} :
            main_is_ignored(P, spec) =>
                /\ P \notin TreePaths(tree)
                /\ \A c \in ListedChildren : c.path # P
                /\ P \in dirs => /\ P \notin Range(walked)
                                 /\ EntriesFor(P) = {}

\* C1, the part the code keeps: an ignored path is no node of the tree, no
\* listed child and has no directory entry of its own.
C1_IgnoredNotEmitted ==
    IndexerDone =>
        \A P \in (dirs \cup files) \ {Root} :
            main_is_ignored(P, spec) =>
                /\ P \notin TreePaths(tree)
                /\ \A c \in ListedChildren : c.path # P
                /\ EntriesFor(P) = {}

\* C1, C3, the tree alone: nothing at or beneath an ignored directory is a
\* node of the tree, and every node of the tree exists and is not ignored.
Tree_ExclusionAbsorbing ==
    (prog = "main" /\ pc \in {"tree", "dirs", "written"}) =>
        /\ \A D \in (dirs \cup files) \ {Root} : main_is_ignored(D, spec) =>
              \A P \in Below(D) \cup {D} : P \notin TreePaths(tree)
        /\ \A P \in TreePaths(tree) :
              P \in dirs \cup files /\ ~main_is_ignored(P, spec)

\* C2, the part the code keeps when the root itself is not matched by a
\* rule: every directory of the tree has exactly one entry, with the tree's
\* children.
C2_TreeDirsHaveEntries ==
    (IndexerDone /\ ~main_is_ignored(Root, spec)) =>
        \A D \in TreeDirs(tree) :
            /\ Cardinality(EntriesFor(D)) = 1
            /\ \A i \in EntriesFor(D) :
                  Range(directories[i].children) = TreeChildren(tree, D)

\* C7, the part the code keeps: the nested tree of a second run is the
\* first run's.
C7_TreesAgree ==
    (prog = "main" /\ pc = "written" /\ prevOutput # None) =>
        Val(output).project_tree = Val(prevOutput).project_tree

\* C2: every directory of the tree, the root included, has exactly one
\* directory entry, whose children are the directory's children in the tree;
\* and no directory entry is for a directory absent from the tree.
C2_TreeEntryAgreement ==
    IndexerDone =>
        /\ \A D \in TreeDirs(tree) :
              /\ Cardinality(EntriesFor(D)) = 1
              /\ \A i \in EntriesFor(D) :
                    Range(directories[i].children) = TreeChildren(tree, D)
        /\ \A i \in 1..Len(directories) :
              \E D \in TreeDirs(tree) : directories[i].relative_path = EntryPath(D)

\* C3: beneath an ignored directory nothing is in any output (tree, directory
\* index, flat file list), whatever the rules say of the descendant itself.
C3_ExclusionAbsorbing ==
    /\ IndexerDone =>
          \A D \in dirs \ {Root} : main_is_ignored(D, spec) =>
              \A P \in Below(D) :
                  /\ P \notin TreePaths(tree)
                  /\ \A c \in ListedChildren : c.path # P
                  /\ EntriesFor(P) = {}
    /\ CsvDone =>
          \A D \in dirs \ {Root} :
              ((\E i \in 1..Len(D) : D[i] = ".git") \/ is_ignored(D, specs)) =>
                  \A P \in Below(D) : P \notin Range(result)

\* C7: a second run over the same project writes the document the first run
\* wrote, element for element and in the same order.
C7_RunsAgree ==
    (prog = "main" /\ pc = "written" /\ prevOutput # None) => output = prevOutput

(***************************************************************************)
(* Claims about the scopes of create_filelist_csv.py.                      *)
(***************************************************************************)
SpecsLoaded == prog = "csv" /\ pc \in {"specs", "files"}

\* A scope governs a path when its base is the path or an ancestor of it.
Applicable(sc, P) == IsPrefix(sc.base, P)

\* A scope excludes a path when its rules match the path taken relative to
\* the scope's base.
Excludes(sc, P) == match_file(sc.spec, as_posix(relative_to(P, sc.base)))

\* C4: is_ignored is true exactly when some scope whose base is the path or
\* an ancestor of it excludes the path relative to that base; scopes based
\* elsewhere never change the verdict, and no scope can un-ignore what
\* another applicable scope excludes.
C4_MultiScopeVerdict ==
    SpecsLoaded =>
        \A P \in dirs \cup files :
            /\ is_ignored(P, specs)
                  <=> \E i \in 1..Len(specs) :
                         Applicable(specs[i], P) /\ Excludes(specs[i], P)
            /\ is_ignored(P, specs)
                  = is_ignored(P, SelectSeq(specs, LAMBDA sc : Applicable(sc, P)))
            /\ \A i \in 1..Len(specs) :
                  is_ignored(P, <<specs[i]>>) => is_ignored(P, specs)

\* C4 witness: the scope of a/.gitignore holds "f" beside a root scope with
\* rules of its own; a/f is hidden and the root's f, outside that scope, is
\* not.
C4_Witness ==
    /\ CsvDone
    /\ \E i \in 1..Len(specs) : specs[i].base = <<"a">> /\ specs[i].spec = <<L_f>>
    /\ \E i \in 1..Len(specs) : specs[i].base = Root /\ specs[i].spec # <<>>
    /\ is_ignored(<<"a", "f">>, specs)
    /\ ~is_ignored(<<"f">>, specs)
    /\ <<"f">> \in Range(result)
    /\ <<"a", "f">> \notin Range(result)

\* The ignore sources in discovery order with the base each is scoped to:
\* the root .gitignore, the extras as given, .git/info/exclude.
Sources ==
    <<[path |-> <<".gitignore">>, base |-> Root]>>
    \o [i \in 1..Len(extras) |-> [path |-> extras[i], base |-> Parent(extras[i])]]
    \o <<[path |-> <<".git", "info", "exclude">>, base |-> Root]>>

\* The lines of the existing sources scoped to base B, in discovery order.
RECURSIVE LinesFor(_, _)
LinesFor(B, srcs) ==
    IF srcs = <<>> THEN <<>>
    ELSE LinesFor(B, SubSeq(srcs, 1, Len(srcs) - 1))
         \o (LET s == srcs[Len(srcs)]
             IN  IF s.base = B /\ s.path \in files THEN content[s.path] ELSE <<>>)

\* Last-match-wins over a list of lines: the last line that has a pattern
\* matching the path is an exclusion.
LastMatchExcludes(lines, path) ==
    \E i \in 1..Len(lines) :
        /\ lines[i].segs # <<>> /\ PatMatches(lines[i], path) /\ ~lines[i].neg
        /\ \A j \in (i + 1)..Len(lines) :
              lines[j].segs = <<>> \/ ~PatMatches(lines[j], path)

BasesWithSource ==
    {Sources[i].base : i \in {j \in 1..Len(Sources) : Sources[j].path \in files}}

\* C8: the root .gitignore and .git/info/exclude (requested or not) are
\* scoped to the root and each extra file to its parent directory; sources
\* of one base form one rule list in discovery order, so that a later
\* source's rule overrides an earlier one's; a missing source adds nothing.
C8_ScopeConstruction ==
    SpecsLoaded =>
        /\ {specs[i].base : i \in 1..Len(specs)} = BasesWithSource
        /\ \A i, j \in 1..Len(specs) : specs[i].base = specs[j].base => i = j
        /\ \A i \in 1..Len(specs) :
              /\ specs[i].spec = from_lines(LinesFor(specs[i].base, Sources))
              /\ \A P \in dirs \cup files :
                    Applicable(specs[i], P) =>
                        (Excludes(specs[i], P)
                            <=> LastMatchExcludes(LinesFor(specs[i].base, Sources),
                                                  as_posix(relative_to(P, specs[i].base))))

\* C8 witness: .gitignore and .git/info/exclude both exist, the exclude file
\* is not among the extras, the extra a/.gitignore is missing on disk, the
\* extra .gitignore shares the root with both, and the exclude file's "!a/b"
\* overrides the "a" of .gitignore for a/b/f.
C8_Witness ==
    /\ SpecsLoaded
    /\ extras = <<<<"a", ".gitignore">>, <<".gitignore">>>>
    /\ <<"a", ".gitignore">> \notin files
    /\ <<".git", "info", "exclude">> \in files
    /\ <<".gitignore">> \in files
    /\ content[<<".gitignore">>] = <<L_a>>
    /\ content[<<".git", "info", "exclude">>] = <<L_notAB>>
    /\ specs = <<[base |-> Root, spec |-> <<L_a, L_a, L_notAB>>]>>
    /\ ~is_ignored(<<"a", "b", "f">>, specs)
    /\ is_ignored(<<"a", "f">>, specs)

(***************************************************************************)
(* Claims about the history aggregator.                                    *)
(***************************************************************************)
HistKeys == {"a.ts", "b"}

\* histories[k]: the events under key k, none when k is no key
Hist(fh, k) ==
    IF \E i \in 1..Len(fh) : fh[i].key = k
    THEN fh[CHOOSE i \in 1..Len(fh) : fh[i].key = k].events
    ELSE <<>>

\* The commit an event came from, by its position in the stream.
CommitOf(e) == stream[e.commit_hash]

\* The author instant of an event's commit.
Instant(e) == CommitOf(e).author_date.utc

\* The change entries of the stream, as <<commit, entry>> positions.
Entries ==
    {ce \in (1..Len(stream)) \X (1..2) :
        ce[2] <= Len(stream[ce[1]].modified_files)}

EntryAt(ce) == stream[ce[1]].modified_files[ce[2]]

HasPath(m) == m.new_path # None \/ m.old_path # None

\* "new path if present, otherwise prior path"
KeyOfEntry(m) == IF m.new_path # None THEN m.new_path ELSE m.old_path

EntriesKeyed(k) == {ce \in Entries : KeyOfEntry(EntryAt(ce)) = Some(k)}

RECURSIVE TotalEvents(_)
TotalEvents(fh) ==
    IF fh = <<>> THEN 0 ELSE Len(Head(fh).events) + TotalEvents(Tail(fh))

HistReturned == prog = "hist" /\ pc \in {"sorted", "assembled"}

\* C5: once extract_git_history has returned, every key's events are in
\* non-decreasing order of author instant, and events of the same instant
\* are in the order their commits came in the stream.
C5_HistoryOrdering ==
    HistReturned =>
        \A n \in 1..Len(file_histories) :
            LET ev == file_histories[n].events
            IN  \A i, j \in 1..Len(ev) :
                    i < j =>
                        /\ Instant(ev[i]) <= Instant(ev[j])
                        /\ Instant(ev[i]) = Instant(ev[j])
                              => ev[i].commit_hash < ev[j].commit_hash

\* C5 witness: three events of one key arrive as (later, earlier, earlier);
\* the returned list holds the two earlier ones in stream order, then the
\* first.
C5_Witness ==
    /\ HistReturned
    /\ Len(stream) = 3
    /\ Len(Hist(file_histories, "b")) = 3
    /\ [i \in 1..3 |-> Hist(file_histories, "b")[i].commit_hash] = <<2, 3, 1>>
    /\ stream[2].author_date.utc = stream[3].author_date.utc
    /\ stream[2].author_date.utc < stream[1].author_date.utc

\* The change entry ProcessMod is about to process is a rename A -> B.
RenameStep ==
    /\ prog = "hist" /\ pc = "mods"
    /\ LET m == stream[Len(stream)].modified_files[mi]
       IN  /\ m.change_type = "RENAME"
           /\ m.old_path # None /\ m.new_path # None
           /\ m.old_path # m.new_path

\* C6: processing a rename A -> B appends exactly one event, the rename's,
\* to histories[B] and leaves histories[A] and every other key unchanged.
C6_RenameContract ==
    [][RenameStep =>
          LET m == stream[Len(stream)].modified_files[mi]
              B == Val(m.new_path)
              before == Hist(file_histories, B)
              after == Hist(file_histories', B)
          IN  /\ Len(after) = Len(before) + 1
              /\ SubSeq(after, 1, Len(before)) = before
              /\ after[Len(after)].commit_hash = Len(stream)
              /\ after[Len(after)].file_rename
              /\ ~after[Len(after)].file_deleted
              /\ after[Len(after)].old_file_name = m.old_path
              /\ after[Len(after)].new_file_name = m.new_path
              /\ \A k \in HistKeys \ {B} :
                    Hist(file_histories', k) = Hist(file_histories, k)]_vars

\* C6 witness: a.ts is added, then renamed to b; b has the rename event alone
\* and a.ts the addition alone, with no deletion.
C6_Witness ==
    /\ prog = "hist" /\ pc = "assembled"
    /\ Len(stream) = 2
    /\ stream[1].modified_files = <<M_add>>
    /\ stream[2].modified_files = <<M_rename>>
    /\ Len(Hist(file_histories, "b")) = 1
    /\ Hist(file_histories, "b")[1].file_rename
    /\ Hist(file_histories, "b")[1].commit_hash = 2
    /\ Len(Hist(file_histories, "a.ts")) = 1
    /\ Hist(file_histories, "a.ts")[1].file_created
    /\ ~Hist(file_histories, "a.ts")[1].file_deleted

\* C9: every change entry with a path has exactly one event, under the key
\* "new path if present, otherwise prior path"; an entry with no path has
\* none and does not stop the aggregation; so the events number as many as
\* the entries with a path, and no key has an empty history.
C9_EventConservation ==
    (prog = "hist" /\ pc \in {"traverse", "sorted", "assembled"}) =>
        /\ \A k \in HistKeys :
              /\ Len(Hist(file_histories, k)) = Cardinality(EntriesKeyed(k))
              /\ \A ce \in EntriesKeyed(k) :
                    Cardinality({i \in 1..Len(Hist(file_histories, k)) :
                        LET e == Hist(file_histories, k)[i]
                        IN  /\ e.commit_hash = ce[1]
                            /\ e.change_type = EntryAt(ce).change_type
                            /\ e.old_file_name = EntryAt(ce).old_path
                            /\ e.new_file_name = EntryAt(ce).new_path}) = 1
        /\ TotalEvents(file_histories)
              = Cardinality({ce \in Entries : HasPath(EntryAt(ce))})
        /\ \A n \in 1..Len(file_histories) :
              /\ file_histories[n].events # <<>>
              /\ file_histories[n].key \in HistKeys
              /\ \A o \in 1..Len(file_histories) :
                    file_histories[o].key = file_histories[n].key => o = n

\* C9 witness: a commit whose first entry has no path and whose second
\* modifies a.ts, then a deletion of a.ts, then a commit on b: a.ts has the
\* modification and the deletion, keyed by its prior path, and b its event.
C9_Witness ==
    /\ HistReturned
    /\ Len(stream) = 3
    /\ stream[1].modified_files = <<M_nopath, M_modA>>
    /\ stream[2].modified_files = <<M_delete>>
    /\ stream[3].modified_files = <<M_modB>>
    /\ Len(Hist(file_histories, "a.ts")) = 2
    /\ \E i \in 1..2 : Hist(file_histories, "a.ts")[i].file_deleted
    /\ Len(Hist(file_histories, "b")) = 1
    /\ TotalEvents(file_histories) = 3

\* The isoformat string of instant u in the reporting timezone, UTC+9.
InReportingZone(u) == <<(u + 9) \div 24, (u + 9) % 24, 9>>

\* C10: a file record's created_at is the author timestamp of the first
\* event of its history, which is the earliest author timestamp of the
\* entries recorded under that key; it is absent only for an empty history.
C10_CreatedAt ==
    (prog = "hist" /\ pc = "assembled") =>
        /\ Len(files_data) = Len(file_histories)
        /\ \A n \in 1..Len(files_data) :
              LET r == files_data[n]
                  instants == {stream[ce[1]].author_date.utc :
                                 ce \in EntriesKeyed(r.relative_path)}
              IN  /\ r.git_history = Hist(file_histories, r.relative_path)
                  /\ r.created_at = None => r.git_history = <<>>
                  /\ r.git_history # <<>> =>
                        /\ r.created_at = Some(r.git_history[1].author_date)
                        /\ Instant(r.git_history[1]) \in instants
                        /\ \A u \in instants : Instant(r.git_history[1]) <= u
                        /\ Val(r.created_at)
                              = InReportingZone(Instant(r.git_history[1]))

\* C10 witness: the first commit on b is authored an hour after the second;
\* created_at of b is the second commit's 23:00 of day 0, not the first's.
C10_Witness ==
    /\ prog = "hist" /\ pc = "assembled"
    /\ Len(stream) >= 2
    /\ stream[1].modified_files = <<M_modB>>
    /\ stream[2].modified_files = <<M_modB>>
    /\ stream[1].author_date.utc = 15
    /\ stream[2].author_date.utc = 14
    /\ \E n \in 1..Len(files_data) :
          /\ files_data[n].relative_path = "b"
          /\ files_data[n].created_at = Some(<<0, 23, 9>>)
          /\ files_data[n].git_history[1].commit_hash = 2

====
